---- MODULE Spec2Model ----
(***************************************************************************)
(* langid.py training tools: the Aho-Corasick Scanner of train.py, the     *)
(* n-gram Tokenizer of LDfeatureselect.py and the bucketed pass1/pass2     *)
(* pipelines of both programs.                                             *)
(*                                                                         *)
(* Interpreter semantics: the sources are Python 3 ("/" is true division,  *)
(* str hashes are salted per process); a StopIteration raised inside a     *)
(* generator ends that generator, as chunk() and Tokenizer rely on.        *)
(***************************************************************************)
EXTENDS Integers, Sequences, FiniteSets, TLC

\* Scanner.alphabet (train.py:48): two symbols stand for the 256 byte values.
Alphabet == {0, 1}
AlphabetSize == Cardinality(Alphabet)

\* Bounds of the model.
MaxKwLen == 2
MaxKeywords == 2
MaxInput == 4
\* Keyword length of the automata whose failure function is examined.
MaxFailKwLen == 3
\* Largest value an array cell of typecode 'H' holds (65535 in the source),
\* scaled so that small automata reach it.
CellMax == 3

\* Tokenizer orders tried (MAX_NGRAM_ORDER is 4 in the source).
MaxOrder == 3
\* Corpus of the feature selection: documents, symbols per document.
MaxDocs == 5
MaxDocLen == 1
\* options.job_count and options.buckets.
MaxJobs == 2
MaxBuckets == 2
\* The cap on chunk_size (100 in the source), scaled to the corpus sizes tried.
ChunkCap == 1
\* Corpus of the training: documents, symbols per document.
MaxTrainDocs == 3
MaxTrainDocLen == 2
\* Languages of the training corpus.
MaxClasses == 2
\* Corpus of the information gain: documents, symbols per document.
MaxPickDocs == 2
MaxPickLen == 2
\* Weights handed to the selection directly: terms, largest weight.
MaxTerms == 3
MaxWeight == 1
\* options.feats_per_lang.
MaxFeatsPerLang == 2
\* Feature id lists cut into chunks: ids, chunk size.
MaxVocab == 5
\* options.df_tokens.
MaxDfTokens == 2
\* Values appended to a disklist.
MaxAppends == 3
\* Bucket files read by unmarshal_iter: items, data bytes per item.
MaxItems == 2
MaxItemLen == 2
\* FEATS_PER_CHUNK (100 in the source), scaled to the feature lists tried.
FeatsPerChunk == 1

VARIABLES
  \* Scanner
  keywords,   \* the keyword list handed to Scanner(keywords), in insertion order
  scanner,    \* the Scanner object: goto, fail, output, nextmove, nm_arr, err
  scanner2,   \* a second Scanner built from another ordering of the same keywords
  text,       \* the symbols read so far
  sstate,     \* state of Scanner.search (nextmove dictionary)
  sstate2,    \* state of the second Scanner's search
  tstate,     \* state of state_trace (nm_arr); IndexError once a lookup failed
  rstate,     \* state of the direct goto/fail simulation
  emitted,    \* keywords yielded by Scanner.search on the last symbol
  emitted2,   \* keywords yielded by the second Scanner on the last symbol
  \* Tokenizer
  max_order,  \* Tokenizer.max_order (options.max_order)
  seq,        \* the sequence handed to Tokenizer.__call__
  tokens,     \* the tokens it yielded, in order; NotRun before the call
  \* Main programs and their worker pools
  pc,           \* position of the main process
  err,          \* the exception that ended the main process, or "none"
  job_count,    \* options.job_count
  buckets,      \* options.buckets
  num_docs,     \* len(paths)
  content,      \* what open(path).read() returned, per document read so far
  path_chunks,  \* list(chunk(paths, chunk_size)), documents by index in paths
  chunk_offsets,\* start offset of every chunk, then the total
  b_dirs,       \* the bucket directories created
  fork,         \* whether worker processes are forked from the parent
  salt,         \* per worker process of the current pool: its str-hash salt
  queue,        \* tasks of the current pool not yet taken by a worker
  running,      \* per worker process: the task it runs, or Idle
  finished,     \* tasks of the current pool that returned, with their results
  files,        \* the files in the bucket directories
  doc_count,    \* the global term -> document frequency table
  \* train.py: class map and model file
  cm,           \* generate_cm: the class of every document
  outfile,      \* options.outfile: "none" until it is written
  pass2_out,    \* per bucket of the training pass2: what the task returned
  \* Temporary directories
  disk_dirs,    \* the bucket directories that exist on disk
  \* unmarshal_iter
  fdata,        \* the bytes of a bucket file
  items,        \* the items unmarshal_iter yielded, in order; NotRun before
  raised,       \* the exception that left unmarshal_iter, or "none"
  \* select_LD_features
  feats_per_lang,     \* options.feats_per_lang
  corpus,             \* the documents behind the bucket files, their classes
  terms,              \* the terms pass3 returned, in order; NotRun before
  w_lang,             \* per language: the weight of every term; NotRun before
  term_inds,          \* per language handled so far: the term indices taken
  final_feature_set,  \* the set returned; NotRun before
  \* build_inverted_index: the candidate features
  features,   \* options.df_tokens and the set built from it; NoFeatures before
  \* build_inverted_index and generate_ptc: the record counts
  wrotekeys,  \* wrotekeys (write_count in train.py): sum of the pass1 results
  readkeys,   \* readkeys (read_count in train.py): sum of the pass2 counts
  pass2_read, \* bucket -> the records its pass2 task took from the bucket's files
  \* disklist
  fileh,      \* the bytes of the temporary file
  fpos,       \* the position of the file object
  count,      \* disklist.count
  appended,   \* the values whose append returned, in order
  torn,       \* whether an append was ended by an exception of marshal.dump
  it,         \* the generator of __iter__: "none", "fresh", "active", "done"
  yielded,    \* the values the generator has yielded, in order
  since,      \* the number of values appended when the generator was made
  stop        \* what ended the generator: the exception, where, the file size

scanVars == <<keywords, scanner, scanner2, text, sstate, sstate2, tstate, rstate,
              emitted, emitted2>>
tokVars == <<max_order, seq, tokens>>
poolVars == <<salt, queue, running, finished>>
mainVars == <<pc, err, job_count, buckets, num_docs, content, path_chunks,
              chunk_offsets, b_dirs, fork, files, doc_count>>
trainVars == <<cm, outfile, pass2_out>>
exitVars == <<disk_dirs>>
marshalVars == <<fdata, items, raised>>
pickVars == <<feats_per_lang, corpus, terms, w_lang, term_inds, final_feature_set>>
diskVars == <<fileh, fpos, count, appended, torn, it, yielded, since, stop>>
featVars == <<features>>
countVars == <<wrotekeys, readkeys, pass2_read>>
moreVars == <<trainVars, exitVars, marshalVars, pickVars, diskVars, featVars, countVars>>
vars == <<scanVars, tokVars, poolVars, mainVars, moreVars>>

----------------------------------------------------------------------------
\* Values

Strings(n) == UNION {[1..k -> Alphabet] : k \in 0..n}
Keywords == Strings(MaxKwLen) \ {<<>>}       \* n-grams have order >= 1
Range(f) == {f[x] : x \in DOMAIN f}
KeywordLists ==
  {l \in UNION {[1..n -> Keywords] : n \in 0..MaxKeywords} :
     \A i, j \in DOMAIN l : i # j => l[i] # l[j]}
Orderings(l) ==
  {m \in [DOMAIN l -> Range(l)] : Range(m) = Range(l)}

Perms(S) == {p \in [1..Cardinality(S) -> S] : Range(p) = S}

EmptyMap == [x \in {} |-> 0]
IndexError == -1
KeyError == -1
Idle == -1
Unread == <<-1>>
NotAnInt == -1
Undefined == {-1}
NotRun == <<<<-1>>>>

----------------------------------------------------------------------------
\* Scanner.build (train.py:60-131)

\* output is a defaultdict(set): reading a missing key inserts an empty set.
Touch(output, k) ==
  IF k \in DOMAIN output THEN output ELSE output @@ (k :> {})

AddOut(output, k, S) ==
  [x \in DOMAIN output \cup {k} |->
     IF x = k THEN (IF k \in DOMAIN output THEN output[k] ELSE {}) \cup S
     ELSE output[x]]

\* Algorithm 2, lines 70-72: follow the goto edges that exist.
RECURSIVE WalkGoto(_, _, _, _)
WalkGoto(goto, a, state, j) ==
  IF j < Len(a) /\ <<state, a[j + 1]>> \in DOMAIN goto
  THEN WalkGoto(goto, a, goto[<<state, a[j + 1]>>], j + 1)
  ELSE <<state, j>>

\* Algorithm 2, lines 73-77: create a state for every remaining symbol.
RECURSIVE AddPath(_, _, _, _, _)
AddPath(goto, newstate, a, state, p) ==
  IF p >= Len(a)
  THEN [goto |-> goto, newstate |-> newstate, state |-> state]
  ELSE AddPath(goto @@ (<<state, a[p + 1]>> :> (newstate + 1)),
               newstate + 1, a, newstate + 1, p + 1)

\* A keyword that ends on an existing path is recorded only when it added states.
EnterNoPrefix(st, a) ==
  LET w == WalkGoto(st.goto, a, 0, 0)
      e == AddPath(st.goto, st.newstate, a, w[1], w[2])
  IN [goto |-> e.goto, newstate |-> e.newstate,
      output |-> IF w[2] < Len(a) THEN AddOut(st.output, e.state, {a})
                 ELSE st.output]

\* Algorithm 2, lines 67-78: one keyword.
Enter(st, a) ==
  LET w == WalkGoto(st.goto, a, 0, 0)
      e == AddPath(st.goto, st.newstate, a, w[1], w[2])
  IN [goto |-> e.goto, newstate |-> e.newstate,
      output |-> AddOut(st.output, e.state, {a})]

RECURSIVE EnterAll(_, _, _)
EnterAll(st, kws, i) ==
  IF i > Len(kws) THEN st ELSE EnterAll(Enter(st, kws[i]), kws, i + 1)

\* Algorithm 2, lines 66-81: the trie, with the root looping on unused symbols.
Algorithm2(kws) ==
  LET st == EnterAll([goto |-> EmptyMap, newstate |-> 0, output |-> EmptyMap],
                     kws, 1)
      loops == {<<0, a>> : a \in Alphabet} \ DOMAIN st.goto
  IN [st EXCEPT !.goto = @ @@ [p \in loops |-> 0]]

\* Lines 85-89 and 106-109: the root's children, in alphabet order.
RECURSIVE RootChildren(_, _)
RootChildren(goto, a) ==
  IF a >= AlphabetSize THEN <<>>
  ELSE (IF goto[<<0, a>>] # 0 THEN <<goto[<<0, a>>]>> ELSE <<>>)
       \o RootChildren(goto, a + 1)

\* The fall back ends at the root, whatever the state it starts from.
FallBackRoot(goto, fail, state, a) == 0

\* Lines 96-98: fall back along fail until a goto edge on a exists; reading
\* fail[state] for a state that has no entry yet raises KeyError.
RECURSIVE FallBack(_, _, _, _)
FallBack(goto, fail, state, a) ==
  IF <<state, a>> \in DOMAIN goto THEN state
  ELSE IF state \notin DOMAIN fail THEN KeyError
  ELSE FallBack(goto, fail, fail[state], a)

\* Line 95: state = fail[r], then the fall back.
FailStart(st, r, a) ==
  IF r \in DOMAIN st.fail THEN FallBack(st.goto, st.fail, st.fail[r], a)
  ELSE KeyError

\* The output of the failure state is not merged into the new state.
FailEdgeNoMerge(st, r, a) ==
  LET s == st.goto[<<r, a>>]
      state == FailStart(st, r, a)
      f == st.goto[<<state, a>>]
  IN IF state = KeyError
     THEN [st EXCEPT !.queue = Append(@, s), !.err = "KeyError"]
     ELSE [st EXCEPT !.queue = Append(@, s),
                     !.fail = (s :> f) @@ @,
                     !.output = Touch(@, f)]

\* Lines 93-102: the child s of r on symbol a gets its fail state and outputs.
FailEdge(st, r, a) ==
  LET s == st.goto[<<r, a>>]
      state == FailStart(st, r, a)
      f == st.goto[<<state, a>>]
      touched == Touch(st.output, f)
  IN IF state = KeyError
     THEN [st EXCEPT !.queue = Append(@, s), !.err = "KeyError"]
     ELSE [st EXCEPT !.queue = Append(@, s),
                     !.fail = (s :> f) @@ @,
                     !.output = IF touched[f] # {} THEN AddOut(touched, s, touched[f])
                                ELSE touched]

RECURSIVE FailLetters(_, _, _)
FailLetters(st, r, a) ==
  IF a >= AlphabetSize \/ st.err # "none" THEN st
  ELSE FailLetters(IF <<r, a>> \in DOMAIN st.goto THEN FailEdge(st, r, a) ELSE st,
                   r, a + 1)

RECURSIVE FailLoop(_)
FailLoop(st) ==
  IF st.queue = <<>> \/ st.err # "none" THEN st
  ELSE FailLoop(FailLetters([st EXCEPT !.queue = Tail(@)], Head(st.queue), 0))

\* Algorithm 3, lines 84-102: fail and the outputs closed under fail.
Algorithm3(trie) ==
  LET q == RootChildren(trie.goto, 0)
  IN FailLoop([goto |-> trie.goto, output |-> trie.output, queue |-> q,
               fail |-> [s \in Range(q) |-> 0], err |-> "none"])

\* Lines 112-118: nextmove of state r on symbol a; fail[r] or the nextmove
\* of fail[r] not being there yet raises KeyError.
MoveEdge(st, r, a) ==
  IF <<r, a>> \in DOMAIN st.goto
  THEN [st EXCEPT !.queue = Append(@, st.goto[<<r, a>>]),
                  !.nextmove = (<<r, a>> :> st.goto[<<r, a>>]) @@ @]
  ELSE IF r \notin DOMAIN st.fail \/ <<st.fail[r], a>> \notin DOMAIN st.nextmove
       THEN [st EXCEPT !.err = "KeyError"]
  ELSE [st EXCEPT !.nextmove = (<<r, a>> :> st.nextmove[<<st.fail[r], a>>]) @@ @]

RECURSIVE MoveLetters(_, _, _)
MoveLetters(st, r, a) ==
  IF a >= AlphabetSize \/ st.err # "none" THEN st ELSE MoveLetters(MoveEdge(st, r, a), r, a + 1)

RECURSIVE MoveLoop(_)
MoveLoop(st) ==
  IF st.queue = <<>> \/ st.err # "none" THEN st
  ELSE MoveLoop(MoveLetters([st EXCEPT !.queue = Tail(@)], Head(st.queue), 0))

\* Algorithm 4, lines 105-118: the next-move dictionary.
Algorithm4(goto, fail) ==
  MoveLoop([goto |-> goto, fail |-> fail, queue |-> RootChildren(goto, 0),
            nextmove |-> [p \in {<<0, a>> : a \in Alphabet} |-> goto[p]],
            err |-> "none"])

\* Line 128: range(len(set(self.nextmove.values()))).
RowCount(nextmove) == Cardinality(Range(nextmove))

\* Lines 127-130: nextstate_iter, state by state and letter by letter.
NextStateIter(nextmove) ==
  [i \in 1..(RowCount(nextmove) * AlphabetSize) |->
     nextmove[<<(i - 1) \div AlphabetSize, (i - 1) % AlphabetSize>>]]

\* The array keeps the low bits of a value that does not fit its cell.
NmArrWrap(nextmove) ==
  LET cells == NextStateIter(nextmove)
  IN [err |-> "none", nm_arr |-> [i \in DOMAIN cells |-> cells[i] % (CellMax + 1)]]

\* Line 131: array.array('H', ...) raises OverflowError on a value above CellMax.
NmArr(nextmove) ==
  LET cells == NextStateIter(nextmove)
  IN IF \E i \in DOMAIN cells : cells[i] > CellMax
     THEN [err |-> "OverflowError", nm_arr |-> <<>>]
     ELSE [err |-> "none", nm_arr |-> cells]

\* Scanner.build, lines 60-131.
Build(kws) ==
  LET trie == Algorithm2(kws)
      a3 == Algorithm3(trie)
      a4 == IF a3.err = "none" THEN Algorithm4(a3.goto, a3.fail)
            ELSE [nextmove |-> EmptyMap, err |-> a3.err]
      arr == IF a4.err = "none" THEN NmArr(a4.nextmove)
             ELSE [err |-> a4.err, nm_arr |-> <<>>]
  IN [goto |-> a3.goto, fail |-> a3.fail, output |-> a3.output,
      newstate |-> trie.newstate, nextmove |-> a4.nextmove,
      nm_arr |-> arr.nm_arr, err |-> arr.err]

Unbuilt ==
  [goto |-> EmptyMap, fail |-> EmptyMap, output |-> EmptyMap, newstate |-> 0,
   nextmove |-> EmptyMap, nm_arr |-> <<>>, err |-> "unbuilt"]

\* Scanner.search, lines 153-155: one nextmove lookup, then output.get(state, []).
SearchMove(sc, state, letter) == sc.nextmove[<<state, letter>>]
SearchOutput(sc, state) ==
  IF state \in DOMAIN sc.output THEN sc.output[state] ELSE {}

\* state_trace, line 219: nm_arr[(state << 8) + letter]; the shift is by the
\* alphabet's width.
TraceMove(nm_arr, state, letter) ==
  LET i == state * AlphabetSize + letter
  IN IF state = IndexError \/ i >= Len(nm_arr) THEN IndexError ELSE nm_arr[i + 1]

\* The uncompiled automaton: fall back along fail, then take the goto edge.
DirectMove(sc, state, letter) ==
  sc.goto[<<FallBack(sc.goto, sc.fail, state, letter), letter>>]

----------------------------------------------------------------------------
\* Scanner: build one automaton per ordering, then read symbols.

ScanIdle ==
  /\ keywords = <<>>
  /\ scanner = Unbuilt
  /\ scanner2 = Unbuilt
  /\ text = <<>>
  /\ sstate = 0
  /\ sstate2 = 0
  /\ tstate = 0
  /\ rstate = 0
  /\ emitted = {}
  /\ emitted2 = {}

TokIdle ==
  /\ max_order = 1
  /\ seq = <<>>
  /\ tokens = NotRun

MainIdle ==
  /\ pc = "off"
  /\ err = "none"
  /\ job_count = 1
  /\ buckets = 1
  /\ num_docs = 0
  /\ content = <<>>
  /\ path_chunks = <<>>
  /\ chunk_offsets = <<>>
  /\ b_dirs = {}
  /\ fork = TRUE
  /\ salt = <<>>
  /\ queue = <<>>
  /\ running = <<>>
  /\ finished = <<>>
  /\ files = {}
  /\ doc_count = <<>>

TrainIdle ==
  /\ cm = <<>>
  /\ outfile = "none"
  /\ pass2_out = EmptyMap

ExitIdle == disk_dirs = {}

MarshalIdle ==
  /\ fdata = <<>>
  /\ items = NotRun
  /\ raised = "none"

NoFeatures == [df_tokens |-> 0, set |-> {<<>>}]
FeatIdle == features = NoFeatures
CountIdle == wrotekeys = 0 /\ readkeys = 0 /\ pass2_read = EmptyMap

NoStop == [err |-> "none", at |-> 0, size |-> 0]

DiskIdle ==
  /\ fileh = <<>>
  /\ fpos = 0
  /\ count = 0
  /\ appended = <<>>
  /\ torn = FALSE
  /\ it = "none"
  /\ yielded = <<>>
  /\ since = 0
  /\ stop = NoStop

PickIdle ==
  /\ feats_per_lang = 0
  /\ corpus = <<>>
  /\ terms = NotRun
  /\ w_lang = NotRun
  /\ term_inds = <<>>
  /\ final_feature_set = NotRun

InitScan ==
  /\ keywords \in KeywordLists
  /\ scanner = Unbuilt
  /\ scanner2 = Unbuilt
  /\ text = <<>>
  /\ sstate = 0
  /\ sstate2 = 0
  /\ tstate = 0
  /\ rstate = 0
  /\ emitted = {}
  /\ emitted2 = {}
  /\ TokIdle
  /\ MainIdle
  /\ TrainIdle /\ ExitIdle /\ MarshalIdle /\ PickIdle /\ DiskIdle /\ FeatIdle /\ CountIdle

\* Scanner(keywords), and Scanner(order) for any ordering of the same keywords.
BuildScanners ==
  /\ scanner.err = "unbuilt"
  /\ scanner' = Build(keywords)
  /\ \E order \in Orderings(keywords) : scanner2' = Build(order)
  /\ UNCHANGED <<keywords, text, sstate, sstate2, tstate, rstate, emitted, emitted2>>
  /\ UNCHANGED <<tokVars, poolVars, mainVars, moreVars>>

\* One input symbol is read by search (both scanners), state_trace and the
\* direct simulation.
ReadSymbol ==
  /\ scanner.err = "none"
  /\ Len(text) < MaxInput
  /\ \E a \in Alphabet :
       /\ text' = Append(text, a)
       /\ sstate' = SearchMove(scanner, sstate, a)
       /\ emitted' = SearchOutput(scanner, sstate')
       /\ sstate2' = SearchMove(scanner2, sstate2, a)
       /\ emitted2' = SearchOutput(scanner2, sstate2')
       /\ tstate' = TraceMove(scanner.nm_arr, tstate, a)
       /\ rstate' = DirectMove(scanner, rstate, a)
  /\ UNCHANGED <<keywords, scanner, scanner2>>
  /\ UNCHANGED <<tokVars, poolVars, mainVars, moreVars>>

NextScan == BuildScanners \/ ReadSymbol

SpecScan == InitScan /\ [][NextScan]_vars

\* Scanner(keywords) for keywords long enough for a failure link to lead to a
\* state below the root's children.
FailKeywordLists ==
  {l \in UNION {[1..n -> Strings(MaxFailKwLen) \ {<<>>}] : n \in 0..MaxKeywords} :
     \A i, j \in DOMAIN l : i # j => l[i] # l[j]}

InitFail ==
  /\ keywords \in FailKeywordLists
  /\ scanner = Unbuilt
  /\ scanner2 = Unbuilt
  /\ text = <<>>
  /\ sstate = 0
  /\ sstate2 = 0
  /\ tstate = 0
  /\ rstate = 0
  /\ emitted = {}
  /\ emitted2 = {}
  /\ TokIdle
  /\ MainIdle
  /\ TrainIdle /\ ExitIdle /\ MarshalIdle /\ PickIdle /\ DiskIdle /\ FeatIdle /\ CountIdle

SpecFail == InitFail /\ [][NextScan]_vars

----------------------------------------------------------------------------
\* Tokenizer.__call__ (LDfeatureselect.py:89-103)

Min(a, b) == IF a <= b THEN a ELSE b

\* Python slice s[a:b] with 0 <= a: positions a..b-1, cut at the end of s.
Slice(s, a, b) == SubSeq(s, a + 1, Min(b, Len(s)))

\* Lines 92-95: iterator i of the tee is advanced i times by bare next()
\* calls; on a sequence shorter than i the StopIteration ends the generator.
AdvanceEnds(m, s) == \E i \in 0..(m - 1) : i > Len(s)

\* Line 97: one symbol from each iterator, up to the first exhausted one;
\* in round k iterator i stands at position k + i.
Window(m, s, k) == Slice(s, k, k + m)

\* Line 99-100: the prefixes of a full window.
Prefixes(token, m) == [n \in 1..m |-> Slice(token, 0, n)]

\* Lines 101-103: the slices token[a:a+b] of the last, short window.
RECURSIVE TailSlices(_, _, _, _)
TailSlices(token, m, a, b) ==
  IF a >= m - 1 THEN <<>>
  ELSE IF b >= m - a THEN TailSlices(token, m, a + 1, 1)
  ELSE <<Slice(token, a, a + b)>> \o TailSlices(token, m, a, b + 1)

\* Lines 96-103.
RECURSIVE TokenLoop(_, _, _)
TokenLoop(m, s, k) ==
  LET token == Window(m, s, k)
  IN IF Len(token) < m THEN TailSlices(token, m, 0, 1)
     ELSE Prefixes(token, m) \o TokenLoop(m, s, k + 1)

\* Tokenizer(m)(s): the tokens yielded, in order.
Tokenizer(m, s) == IF AdvanceEnds(m, s) THEN <<>> ELSE TokenLoop(m, s, 0)

----------------------------------------------------------------------------
\* Chunks, offsets, worker pools and bucket files, shared by both programs

Paths(n) == [i \in 1..n |-> i - 1]
DocTexts == Strings(MaxDocLen)

\* min(len(paths) / (options.job_count*2), 100), LDfeatureselect.py:407 and
\* train.py:321: "/" yields a float and min keeps it unless the cap is
\* smaller, so the result is the int cap or a float.
ChunkSize(n, j) == IF n > 2 * j * ChunkCap THEN ChunkCap ELSE NotAnInt

\* chunk(seq, chunksize), LDfeatureselect.py:129-138 and train.py:157-166,
\* for an int chunksize; range(chunksize) raises TypeError on a float.
RECURSIVE Chunk(_, _)
Chunk(s, size) ==
  LET n == Min(size, Len(s))
  IN IF n = 0 THEN <<>>
     ELSE <<SubSeq(s, 1, n)>> \o Chunk(SubSeq(s, n + 1, Len(s)), size)

\* offsets(chunks), train.py:168-173, and LDfeatureselect.py:455-458.
RECURSIVE Offsets(_)
Offsets(chunks) ==
  IF chunks = <<>> THEN <<0>>
  ELSE LET o == Offsets(SubSeq(chunks, 1, Len(chunks) - 1))
       IN Append(o, o[Len(o)] + Len(chunks[Len(chunks)]))

\* str hashes are salted with a value drawn when the interpreter process
\* starts: a forked worker inherits the parent's salt, a spawned one draws
\* its own.
Salts == {0, 1}
PoolSalts(j) ==
  IF fork THEN {[w \in 1..j |-> x] : x \in Salts} ELSE [1..j -> Salts]

RECURSIVE KeyCode(_)
KeyCode(key) ==
  IF key = <<>> THEN 0
  ELSE (AlphabetSize + 1) * KeyCode(SubSeq(key, 1, Len(key) - 1))
       + key[Len(key)] + 1

\* hash(key) in a process whose salt is s.
Hash(s, key) == KeyCode(key) + s

\* LDfeatureselect.py:225: bucket_index = hash(key) % len(__b_freq).
BucketIndex(s, key, n) == Hash(s, key) % n

Seq0(n) == [i \in 1..n |-> i - 1]
\* The parent goes on without waiting for the tasks that still run.
AllIdleNoWait == TRUE

\* The results loop and pool.join(): no task of the pool is still running.
AllIdle == \A w \in DOMAIN running : running[w] = Idle

\* A worker takes the next task of the pool (imap_unordered, chunksize=1).
Take(w) ==
  /\ running[w] = Idle
  /\ queue # <<>>
  /\ running' = [running EXCEPT ![w] = Head(queue)]
  /\ queue' = Tail(queue)

\* A file a task holds open (or has closed) in a bucket directory: its path is
\* the directory, the name and the suffix.
File(dir, name, task, suffix, data, open) ==
  [dir |-> dir, name |-> name, task |-> task, suffix |-> suffix, data |-> data,
   open |-> open]

\* tempfile.mkstemp(prefix, suffix, dir): the file is created with O_EXCL
\* under a name no file of the directory has; the names a directory can hold
\* are numbered, the first free one is taken.
MkstempShared(dir, suffix) == dir
Mkstemp(dir, suffix) ==
  CHOOSE n \in 0..Cardinality(files) :
    /\ \A f \in files : ~(f.dir = dir /\ f.suffix = suffix /\ f.name = n)
    /\ \A m \in 0..(n - 1) :
         \E f \in files : f.dir = dir /\ f.suffix = suffix /\ f.name = m

\* os.write to the descriptors of a task, then os.close: data(f) is what the
\* task writes to its file of directory f.dir and suffix f.suffix.
WriteAndClose(c, data) ==
  {IF f.task = c /\ f.open
   THEN [f EXCEPT !.data = data[f.dir, f.suffix], !.open = FALSE]
   ELSE f : f \in files}

RECURSIVE SumValues(_)
SumValues(S) ==
  IF S = {} THEN 0
  ELSE LET x == CHOOSE x \in S : TRUE IN x[2] + SumValues(S \ {x})

\* The sum of the results of a pool's tasks (LDfeatureselect.py:420-422 and
\* 431-433, train.py:342 and 353).
SumOut(out) == SumValues({<<t, out[t]>> : t \in DOMAIN out})

----------------------------------------------------------------------------
\* LDfeatureselect.py: build_inverted_index

\* Lines 217-222: the chunk's documents that contain the token, by doc_index.
DocsWith(texts, token) ==
  {i \in DOMAIN texts : token \in Range(Tokenizer(max_order, texts[i]))}

RECURSIVE Ascending(_)
Ascending(S) ==
  IF S = {} THEN <<>>
  ELSE LET m == CHOOSE x \in S : \A y \in S : x <= y
       IN <<m - 1>> \o Ascending(S \ {m})

ChunkTokens(texts) ==
  UNION {Range(Tokenizer(max_order, texts[i])) : i \in DOMAIN texts}

\* Lines 224-227: the records of one pass1 task for bucket b.
FreqData(texts, s, b) ==
  {<<key, Cardinality(DocsWith(texts, key))>> :
     key \in {k \in ChunkTokens(texts) : BucketIndex(s, k, buckets) = b}}
ListData(texts, s, c, b) ==
  {<<key, c, Ascending(DocsWith(texts, key))>> :
     key \in {k \in ChunkTokens(texts) : BucketIndex(s, k, buckets) = b}}

InitSelect ==
  /\ pc = "build_inverted_index"
  /\ err = "none"
  /\ num_docs \in 1..MaxDocs
  /\ job_count \in 1..MaxJobs
  /\ buckets \in 1..MaxBuckets
  /\ max_order \in 1..MaxOrder
  /\ fork \in BOOLEAN
  /\ content = [d \in 0..(num_docs - 1) |-> Unread]
  /\ path_chunks = <<>>
  /\ chunk_offsets = <<>>
  /\ b_dirs = Undefined
  /\ salt = <<>>
  /\ queue = <<>>
  /\ running = <<>>
  /\ finished = EmptyMap
  /\ files = {}
  /\ doc_count = EmptyMap
  /\ seq = <<>>
  /\ tokens = NotRun
  /\ ScanIdle
  /\ TrainIdle /\ ExitIdle /\ MarshalIdle /\ PickIdle /\ DiskIdle /\ FeatIdle /\ CountIdle

\* Lines 405-413: the bucket directories (the list is bound to b_dirs only
\* when every mkdtemp has returned; an OSError of one of them ends the
\* program), the chunks, the pass1 pool.
StartIndex ==
  /\ pc = "build_inverted_index"
  /\ \E made \in 0..buckets :
       /\ disk_dirs' = 0..(made - 1)
       /\ IF made < buckets
          THEN /\ err' = "OSError"
               /\ pc' = "aborted"
               /\ UNCHANGED <<b_dirs, path_chunks, poolVars>>
          ELSE /\ b_dirs' = 0..(buckets - 1)
               /\ IF ChunkSize(num_docs, job_count) = NotAnInt
                  THEN /\ err' = "TypeError"
                       /\ pc' = "aborted"
                       /\ UNCHANGED <<path_chunks, poolVars>>
                  ELSE /\ path_chunks' = Chunk(Paths(num_docs), ChunkSize(num_docs, job_count))
                       /\ salt' \in PoolSalts(job_count)
                       /\ queue' = Seq0(Len(path_chunks'))
                       /\ running' = [w \in 1..job_count |-> Idle]
                       /\ finished' = EmptyMap
                       /\ pc' = "pass1"
                       /\ err' = "none"
  /\ UNCHANGED <<job_count, buckets, num_docs, content, chunk_offsets, fork,
                 files, doc_count>>
  /\ UNCHANGED <<scanVars, tokVars, trainVars, marshalVars, pickVars, diskVars, featVars, countVars>>

\* cleanup, lines 181-189, registered with atexit: the program has ended by
\* an exception; rmtree removes the directories of b_dirs one after the
\* other, an OSError of rmtree leaves the loop (only NameError is caught).
cleanup ==
  /\ pc = "aborted"
  /\ pc' = "exited"
  /\ IF b_dirs = Undefined
     THEN UNCHANGED <<disk_dirs, files>>
     ELSE \E removed \in 0..Cardinality(b_dirs) :
            /\ disk_dirs' = disk_dirs \ (0..(removed - 1))
            /\ files' = {f \in files : f.dir >= removed}
  /\ UNCHANGED poolVars
  /\ UNCHANGED <<err, job_count, buckets, num_docs, content, path_chunks,
                 chunk_offsets, b_dirs, fork, doc_count>>
  /\ UNCHANGED <<scanVars, tokVars, trainVars, marshalVars, pickVars, diskVars, featVars, countVars>>

\* pass1, lines 207-211: a worker takes a chunk and creates its files.
SelectPass1Start(w) ==
  /\ pc = "pass1"
  /\ Take(w)
  /\ files' = files \cup
       {File(b, Mkstemp(b, sfx), running'[w], sfx, {}, TRUE) :
            b \in b_dirs, sfx \in {"freq", "list"}}
  /\ UNCHANGED <<salt, finished>>
  /\ UNCHANGED <<pc, err, job_count, buckets, num_docs, content, path_chunks,
                 chunk_offsets, b_dirs, fork, doc_count>>
  /\ UNCHANGED <<scanVars, tokVars, moreVars>>

\* pass1, lines 213-233: the documents are read and tokenized, the records
\* written and the files closed.
SelectPass1Finish(w) ==
  /\ pc = "pass1"
  /\ running[w] # Idle
  /\ LET c == running[w]
         chunk == path_chunks[c + 1]
     IN \E texts \in [DOMAIN chunk -> DocTexts] :
          /\ content' = [d \in DOMAIN content |->
                           IF \E i \in DOMAIN chunk : chunk[i] = d
                           THEN texts[CHOOSE i \in DOMAIN chunk : chunk[i] = d]
                           ELSE content[d]]
          /\ files' = WriteAndClose(c,
               [b \in b_dirs, sfx \in {"freq", "list"} |->
                  IF sfx = "freq" THEN FreqData(texts, salt[w], b)
                  ELSE ListData(texts, salt[w], c, b)])
          /\ finished' = (c :> Cardinality(ChunkTokens(texts))) @@ finished
  /\ running' = [running EXCEPT ![w] = Idle]
  /\ UNCHANGED <<salt, queue>>
  /\ UNCHANGED <<pc, err, job_count, buckets, num_docs, path_chunks,
                 chunk_offsets, b_dirs, fork, doc_count>>
  /\ UNCHANGED <<scanVars, tokVars, moreVars>>

\* Lines 419-429: every pass1 result is in, the pool is joined, the pass2
\* pool is created over the bucket directories (pass2 hashes nothing: the
\* salts of its processes are left out).
SelectPass1Join ==
  /\ pc = "pass1"
  /\ queue = <<>>
  /\ AllIdle
  /\ pc' = "pass2"
  /\ salt' = <<>>
  /\ queue' = Seq0(buckets)
  /\ running' = [w \in 1..job_count |-> Idle]
  /\ finished' = EmptyMap
  /\ wrotekeys' = SumOut(finished)
  /\ UNCHANGED <<readkeys, pass2_read>>
  /\ UNCHANGED <<err, job_count, buckets, num_docs, content, path_chunks,
                 chunk_offsets, b_dirs, fork, files, doc_count>>
  /\ UNCHANGED <<scanVars, tokVars>>
  /\ UNCHANGED <<trainVars, exitVars, marshalVars, pickVars, diskVars, featVars>>

\* pass2, line 241: a worker takes a bucket and opens its docfreq file.
SelectPass2Start(w) ==
  /\ pc = "pass2"
  /\ Take(w)
  /\ files' = files \cup {File(running'[w], 0, running'[w], "docfreq", {}, TRUE)}
  /\ UNCHANGED <<salt, finished>>
  /\ UNCHANGED <<pc, err, job_count, buckets, num_docs, content, path_chunks,
                 chunk_offsets, b_dirs, fork, doc_count>>
  /\ UNCHANGED <<scanVars, tokVars, moreVars>>

\* The records of every file of the bucket, whatever its name ends with.
FreqReadAnyFile(b) ==
  UNION {{<<f.task, r>> : r \in f.data} : f \in {g \in files : g.dir = b}}

\* The (file, record) pairs of the .freq files of a bucket.
FreqRead(b) ==
  {<<f.task, r>> : f \in {g \in files : g.dir = b /\ g.suffix = "freq"},
                   r \in UNION {g.data : g \in files}} \cap
  UNION {{<<f.task, r>> : r \in f.data} :
           f \in {g \in files : g.dir = b /\ g.suffix = "freq"}}

\* pass2, lines 239-249: doc_count[key] += value over every record.
DocFreqData(b) ==
  {<<key, SumValues({<<x[1], x[2][2]>> : x \in {y \in FreqRead(b) : y[2][1] = key}})>> :
     key \in {x[2][1] : x \in FreqRead(b)}}

\* pass2, lines 242-250: the bucket's .freq files are summed into docfreq.
SelectPass2Finish(w) ==
  /\ pc = "pass2"
  /\ running[w] # Idle
  /\ LET b == running[w]
     IN /\ files' = {f \in files : ~(f.dir = b /\ f.suffix = "docfreq")} \cup
                    {File(b, 0, b, "docfreq", DocFreqData(b), FALSE)}
        /\ finished' = (b :> Cardinality(FreqRead(b))) @@ finished
        /\ pass2_read' = (b :> FreqRead(b)) @@ pass2_read
  /\ running' = [running EXCEPT ![w] = Idle]
  /\ UNCHANGED <<salt, queue>>
  /\ UNCHANGED <<pc, err, job_count, buckets, num_docs, content, path_chunks,
                 chunk_offsets, b_dirs, fork, doc_count>>
  /\ UNCHANGED <<wrotekeys, readkeys>>
  /\ UNCHANGED <<scanVars, tokVars>>
  /\ UNCHANGED <<trainVars, exitVars, marshalVars, pickVars, diskVars, featVars>>

\* Lines 440-443: doc_count[key] = value, bucket after bucket: the record of
\* the last bucket that holds the key stays.
GlobalDocCount ==
  LET holds(b, key) ==
        \E f \in files : f.dir = b /\ f.suffix = "docfreq"
                         /\ \E r \in f.data : r[1] = key
      keys == {r[1] : r \in UNION {f.data : f \in {g \in files : g.suffix = "docfreq"}}}
      last(key) == CHOOSE b \in b_dirs :
                     holds(b, key) /\ \A b2 \in b_dirs : holds(b2, key) => b2 <= b
      value(b, key) ==
        LET f == CHOOSE f \in files : f.dir = b /\ f.suffix = "docfreq"
        IN (CHOOSE r \in f.data : r[1] = key)[2]
  IN [key \in keys |-> value(last(key), key)]

\* Line 450: d, the entries of the table whose key has i symbols.
OfOrder(dc, i) == {k \in DOMAIN dc : Len(k) = i}

\* sorted(d, key=d.get, reverse=True): the keys by falling count, equal
\* counts in the order the dictionary gives them.
SortedByCount(dc, K) ==
  {p \in Perms(K) : \A a, b \in DOMAIN p : a < b => dc[p[a]] >= dc[p[b]]}

\* Line 451: sorted(...)[:options.df_tokens].
FirstN(p, n) == {p[a] : a \in {b \in DOMAIN p : b <= n}}

\* Lines 448-452: the sets the loop over the orders can build.
Features(dc, orders, n) ==
  {UNION {FirstN(pick[i], n) : i \in 1..orders} :
     pick \in {f \in [1..orders -> UNION {SortedByCount(dc, OfOrder(dc, i)) : i \in 1..orders}] :
                 \A i \in 1..orders : f[i] \in SortedByCount(dc, OfOrder(dc, i))}}

\* Lines 431-460: every pass2 result is in; the global table, the candidate
\* features and the chunk offsets are built.
SelectPass2Join ==
  /\ pc = "pass2"
  /\ queue = <<>>
  /\ AllIdle
  /\ pc' = "indexed"
  /\ readkeys' = SumOut(finished)
  /\ UNCHANGED <<wrotekeys, pass2_read>>
  /\ doc_count' = GlobalDocCount
  /\ \E n \in 0..MaxDfTokens : \E F \in Features(doc_count', max_order, n) :
       features' = [df_tokens |-> n, set |-> F]
  /\ chunk_offsets' = Offsets(path_chunks)
  /\ UNCHANGED poolVars
  /\ UNCHANGED <<err, job_count, buckets, num_docs, content, path_chunks,
                 b_dirs, fork, files>>
  /\ UNCHANGED <<scanVars, tokVars>>
  /\ UNCHANGED <<trainVars, exitVars, marshalVars, pickVars, diskVars>>

NextSelect ==
  \/ StartIndex
  \/ \E w \in DOMAIN running : SelectPass1Start(w)
  \/ \E w \in DOMAIN running : SelectPass1Finish(w)
  \/ SelectPass1Join
  \/ \E w \in DOMAIN running : SelectPass2Start(w)
  \/ \E w \in DOMAIN running : SelectPass2Finish(w)
  \/ SelectPass2Join
  \/ cleanup

SpecSelect == InitSelect /\ [][NextSelect]_vars

----------------------------------------------------------------------------
\* train.py: build_scanner, generate_ptc and pass1

\* index(seq), lines 187-194: item -> position, the last one if repeated.
index(s, k) ==
  (CHOOSE i \in DOMAIN s : s[i] = k /\ \A j \in DOMAIN s : s[j] = k => j <= i) - 1

\* build_scanner, lines 390-393: the feature ids of every output state.
state2feat(sc, kws) ==
  [k \in DOMAIN sc.output |-> {index(kws, f) : f \in sc.output[k]}]

\* generate_ptc, line 323.
feat_chunks(kws) == Chunk(kws, FeatsPerChunk)

\* generate_ptc, lines 327-331: feature id -> the chunk of features it is in.
bucket_map(kws) ==
  LET fc == feat_chunks(kws)
      has(c, f) == \E p \in DOMAIN fc[c] : index(kws, fc[c][p]) = f
  IN [f \in {index(kws, kws[i]) : i \in DOMAIN kws} |->
        (CHOOSE c \in DOMAIN fc :
           has(c, f) /\ \A c2 \in DOMAIN fc : has(c2, f) => c2 <= c) - 1]

\* state_trace, lines 217-220: the states entered, symbol after symbol, up to
\* a lookup that raises IndexError.
RECURSIVE StateTrace(_, _, _)
StateTrace(nm_arr, state, txt) ==
  IF txt = <<>> THEN <<>>
  ELSE LET nxt == TraceMove(nm_arr, state, Head(txt))
       IN IF nxt = IndexError THEN <<IndexError>>
          ELSE <<nxt>> \o StateTrace(nm_arr, nxt, Tail(txt))

\* state_trace, lines 209-221: how often each state was entered.
state_trace(nm_arr, txt) ==
  LET tr == StateTrace(nm_arr, 0, txt)
  IN IF tr # <<>> /\ tr[Len(tr)] = IndexError
     THEN [err |-> "IndexError", count |-> EmptyMap]
     ELSE [err |-> "none",
           count |-> [st \in Range(tr) |-> Cardinality({p \in DOMAIN tr : tr[p] = st})]]

\* pass1, lines 233-237: term_freq[doc_id, f_id] += count[state] over the
\* entered output states.
TermFreq(texts) ==
  LET s2f == state2feat(scanner, keywords)
      cnt(i) == state_trace(scanner.nm_arr, texts[i]).count
      hits(i, f) == {st \in DOMAIN cnt(i) \cap DOMAIN s2f : f \in s2f[st]}
      keys == {k \in {<<i - 1, f>> : i \in DOMAIN texts, f \in 0..(Len(keywords) - 1)} :
                 hits(k[1] + 1, k[2]) # {}}
  IN [k \in keys |->
        SumValues({<<st, cnt(k[1] + 1)[st]>> : st \in hits(k[1] + 1, k[2])})]

\* pass1, lines 239-243: the items ( f_id, chunk_id, doc_id, count ) written
\* into bucket b.
Items(texts, c, b) ==
  LET tf == TermFreq(texts)
  IN {<<k[2], c, k[1], tf[k]>> : k \in {x \in DOMAIN tf : bucket_map(keywords)[x[2]] = b}}

\* Positions of the chunk whose document makes state_trace raise.
Failing(texts) ==
  {i \in DOMAIN texts : state_trace(scanner.nm_arr, texts[i]).err # "none"}

\* generate_cm, lines 287-300: every document has the class of its
\* directory, and every class has a document.
ClassMaps(n) ==
  {m \in [0..(n - 1) -> 0..(MaxClasses - 1)] :
     \E k \in 1..MaxClasses : Range(m) = 0..(k - 1)}

\* The state after read_corpus and generate_cm (lines 407-409): the feature
\* list and the paths are known, no document has been read.
InitTrain ==
  /\ pc = "build_scanner"
  /\ err = "none"
  /\ keywords \in KeywordLists
  /\ num_docs \in 1..MaxTrainDocs
  /\ job_count \in 1..MaxJobs
  /\ buckets = 1
  /\ fork = TRUE
  /\ content = [d \in 0..(num_docs - 1) |-> Unread]
  /\ scanner = Unbuilt
  /\ scanner2 = Unbuilt
  /\ text = <<>>
  /\ sstate = 0
  /\ sstate2 = 0
  /\ tstate = 0
  /\ rstate = 0
  /\ emitted = {}
  /\ emitted2 = {}
  /\ path_chunks = <<>>
  /\ chunk_offsets = <<>>
  /\ b_dirs = {}
  /\ salt = <<>>
  /\ queue = <<>>
  /\ running = <<>>
  /\ finished = EmptyMap
  /\ files = {}
  /\ doc_count = EmptyMap
  /\ cm \in ClassMaps(num_docs)
  /\ outfile = "none"
  /\ pass2_out = EmptyMap
  /\ TokIdle
  /\ ExitIdle /\ MarshalIdle /\ PickIdle /\ DiskIdle /\ FeatIdle /\ CountIdle

\* build_scanner, lines 376-394 (main, line 410): an exception of
\* Scanner.build ends the program.
BuildScanner ==
  /\ pc = "build_scanner"
  /\ scanner' = Build(keywords)
  /\ IF scanner'.err = "none"
     THEN pc' = "generate_ptc" /\ err' = "none"
     ELSE pc' = "aborted" /\ err' = scanner'.err
  /\ UNCHANGED <<keywords, scanner2, text, sstate, sstate2, tstate, rstate,
                 emitted, emitted2>>
  /\ UNCHANGED <<job_count, buckets, num_docs, content, path_chunks,
                 chunk_offsets, b_dirs, fork, files, doc_count>>
  /\ UNCHANGED <<tokVars, poolVars, moreVars>>

\* generate_ptc, lines 321-339: the chunks, the bucket directories (one per
\* chunk of features), the pass1 pool.
StartPtc ==
  /\ pc = "generate_ptc"
  /\ IF ChunkSize(num_docs, job_count) = NotAnInt
     THEN /\ err' = "TypeError"
          /\ pc' = "aborted"
          /\ UNCHANGED <<path_chunks, b_dirs, disk_dirs, poolVars>>
     ELSE /\ path_chunks' = Chunk(Paths(num_docs), ChunkSize(num_docs, job_count))
          /\ b_dirs' = {c - 1 : c \in DOMAIN feat_chunks(keywords)}
          /\ disk_dirs' = b_dirs'
          /\ salt' = <<>>
          /\ queue' = Seq0(Len(path_chunks'))
          /\ running' = [w \in 1..job_count |-> Idle]
          /\ finished' = EmptyMap
          /\ pc' = "pass1"
          /\ err' = "none"
  /\ UNCHANGED <<job_count, buckets, num_docs, content, chunk_offsets, fork,
                 files, doc_count>>
  /\ UNCHANGED <<scanVars, tokVars, trainVars, marshalVars, pickVars, diskVars, featVars, countVars>>

\* pass1, lines 228-231: a worker takes a chunk and creates one file per
\* bucket directory.
TrainPass1Start(w) ==
  /\ pc = "pass1"
  /\ Take(w)
  /\ files' = files \cup {File(b, Mkstemp(b, "index"), running'[w], "index", {}, TRUE) : b \in b_dirs}
  /\ UNCHANGED <<salt, finished>>
  /\ UNCHANGED <<pc, err, job_count, buckets, num_docs, content, path_chunks,
                 chunk_offsets, b_dirs, fork, doc_count>>
  /\ UNCHANGED <<scanVars, tokVars, moreVars>>

\* pass1, lines 233-249: the documents are traced one after the other; an
\* IndexError of state_trace ends the task before any item is written and
\* leaves its files open and empty, otherwise the items are written and the
\* files closed.
TrainPass1Finish(w) ==
  /\ pc = "pass1"
  /\ running[w] # Idle
  /\ LET c == running[w]
         chunk == path_chunks[c + 1]
     IN \E texts \in [DOMAIN chunk -> Strings(MaxTrainDocLen)] :
          LET bad == Failing(texts)
              read == IF bad = {} THEN DOMAIN chunk
                      ELSE {i \in DOMAIN chunk : \A j \in bad : i <= j}
          IN /\ content' = [d \in DOMAIN content |->
                              IF \E i \in read : chunk[i] = d
                              THEN texts[CHOOSE i \in read : chunk[i] = d]
                              ELSE content[d]]
             /\ IF bad = {}
                THEN /\ files' = WriteAndClose(c,
                          [b \in b_dirs, sfx \in {"index"} |-> Items(texts, c, b)])
                     /\ finished' = (c :> Cardinality(DOMAIN TermFreq(texts))) @@ finished
                ELSE /\ files' = files
                     /\ finished' = (c :> IndexError) @@ finished
  /\ running' = [running EXCEPT ![w] = Idle]
  /\ UNCHANGED <<salt, queue>>
  /\ UNCHANGED <<pc, err, job_count, buckets, num_docs, path_chunks,
                 chunk_offsets, b_dirs, fork, doc_count>>
  /\ UNCHANGED <<scanVars, tokVars, moreVars>>

\* The results of the failed tasks are skipped.
Pass1FailedIgnored == FALSE

\* generate_ptc, line 342: sum(pass1_out) meets the exception of a task.
Pass1Failed == \E c \in DOMAIN finished : finished[c] = IndexError

\* generate_ptc, lines 339-352: the pool is joined; sum(pass1_out) raises the
\* exception of a failed task, otherwise the pass2 pool is created over the
\* bucket directories.
TrainPass1Join ==
  /\ pc = "pass1"
  /\ queue = <<>>
  /\ AllIdle
  /\ IF Pass1Failed
     THEN /\ pc' = "aborted"
          /\ err' = "IndexError"
          /\ UNCHANGED <<queue, running, chunk_offsets, wrotekeys>>
     ELSE /\ pc' = "pass2"
          /\ err' = "none"
          /\ wrotekeys' = SumOut(finished)
          /\ chunk_offsets' = Offsets(path_chunks)
          /\ queue' = Seq0(Len(feat_chunks(keywords)))
          /\ running' = [w \in 1..job_count |-> Idle]
  /\ UNCHANGED <<salt, finished>>
  /\ UNCHANGED <<readkeys, pass2_read>>
  /\ UNCHANGED <<job_count, buckets, num_docs, content, path_chunks,
                 b_dirs, fork, files, doc_count>>
  /\ UNCHANGED <<scanVars, tokVars>>
  /\ UNCHANGED <<trainVars, exitVars, marshalVars, pickVars, diskVars, featVars>>

\* pass2, line 260: a worker takes ( num_feats, base_f_id, b_dir ).
TrainPass2Start(w) ==
  /\ pc = "pass2"
  /\ Take(w)
  /\ UNCHANGED <<salt, finished>>
  /\ UNCHANGED mainVars
  /\ UNCHANGED <<scanVars, tokVars, moreVars>>

\* The document is found without the chunk's offset.
DocIndexNoOffset(chunk_id, doc_id) == doc_id

\* pass2, line 268: doc_index = __chunk_offsets[chunk_id] + doc_id.
DocIndex(chunk_id, doc_id) == chunk_offsets[chunk_id + 1] + doc_id

\* pass2, lines 265-271: the records of the bucket's .index files.
IndexRead(b) ==
  UNION {f.data : f \in {g \in files : g.dir = b /\ g.suffix = "index"}}

\* pass2, lines 268-270: the counts the records hold for cell
\* (doc_index, f_index); fm[doc_index, f_index] = count keeps the one read last.
CellCounts(b, base_f_id, doc_index, f_index) ==
  {r[4] : r \in {x \in IndexRead(b) :
                   DocIndex(x[2], x[3]) = doc_index /\ x[1] - base_f_id = f_index}}

\* pass2, line 273: np.dot(fm.T, __cm).
Dot(fm, num_feats) ==
  [e \in (0..(num_feats - 1)) \X Range(cm) |->
     SumValues({<<d, fm[<<d, e[1]>>]>> : d \in {x \in DOMAIN cm : cm[x] = e[2]}})]

\* generate_ptc, line 345: the number of features of every bucket.
f_chunk_sizes(kws) == [c \in DOMAIN feat_chunks(kws) |-> Len(feat_chunks(kws)[c])]

\* Every bucket is told that its first feature id is 0.
f_chunk_offsets_zero(kws) == [c \in 1..(Len(feat_chunks(kws)) + 1) |-> 0]

\* generate_ptc, line 346: the first feature id of every bucket.
f_chunk_offsets(kws) == Offsets(feat_chunks(kws))

\* pass2, lines 257-275: the feature map of the bucket, zero where no record
\* is read, and its product with the class map.
TrainPass2Finish(w) ==
  /\ pc = "pass2"
  /\ running[w] # Idle
  /\ LET b == running[w]
         num_feats == f_chunk_sizes(keywords)[b + 1]
         base_f_id == f_chunk_offsets(keywords)[b + 1]
         cells == (0..(num_docs - 1)) \X (0..(num_feats - 1))
     IN \E fm \in [cells -> 0..MaxTrainDocLen] :
          /\ \A e \in cells :
               LET cs == CellCounts(b, base_f_id, e[1], e[2])
               IN IF cs = {} THEN fm[e] = 0 ELSE fm[e] \in cs
          /\ pass2_out' = (b :> [reads |-> Cardinality(IndexRead(b)),
                                 prod |-> Dot(fm, num_feats)]) @@ pass2_out
          /\ pass2_read' = (b :> IndexRead(b)) @@ pass2_read
  /\ running' = [running EXCEPT ![w] = Idle]
  /\ UNCHANGED <<salt, queue, finished>>
  /\ UNCHANGED mainVars
  /\ UNCHANGED <<cm, outfile>>
  /\ UNCHANGED <<wrotekeys, readkeys>>
  /\ UNCHANGED <<scanVars, tokVars, exitVars, marshalVars, pickVars, diskVars, featVars>>

\* generate_ptc, lines 352-362, and main, lines 412-419: the results of
\* pass2 are unzipped (ValueError when there is no bucket), nb_ptc and nb_pc
\* are computed and the model is written.
TrainPass2Join ==
  /\ pc = "pass2"
  /\ queue = <<>>
  /\ AllIdle
  /\ IF b_dirs = {}
     THEN /\ pc' = "aborted" /\ err' = "ValueError" /\ outfile' = outfile
          /\ readkeys' = readkeys
     ELSE /\ pc' = "done" /\ err' = "none" /\ outfile' = "written"
          /\ readkeys' = SumOut([b \in DOMAIN pass2_out |-> pass2_out[b].reads])
  /\ UNCHANGED poolVars
  /\ UNCHANGED <<job_count, buckets, num_docs, content, path_chunks,
                 chunk_offsets, b_dirs, fork, files, doc_count>>
  /\ UNCHANGED <<cm, pass2_out>>
  /\ UNCHANGED <<wrotekeys, pass2_read>>
  /\ UNCHANGED <<scanVars, tokVars, exitVars, marshalVars, pickVars, diskVars, featVars>>

NextTrain ==
  \/ BuildScanner
  \/ StartPtc
  \/ \E w \in DOMAIN running : TrainPass1Start(w)
  \/ \E w \in DOMAIN running : TrainPass1Finish(w)
  \/ TrainPass1Join
  \/ \E w \in DOMAIN running : TrainPass2Start(w)
  \/ \E w \in DOMAIN running : TrainPass2Finish(w)
  \/ TrainPass2Join

SpecTrain == InitTrain /\ [][NextTrain]_vars

----------------------------------------------------------------------------
\* unmarshal_iter (LDfeatureselect.py:140-149, train.py:176-185)

\* Bytes of a bucket file: 0 and 1 are data, TypeRecord is the type code that
\* starts an item, TypeUnknown a byte that is no type code.
TypeRecord == 2
TypeUnknown == 3

\* The items written: byte strings of up to MaxItemLen data bytes.
Payloads == UNION {[1..n -> {0, 1}] : n \in 0..MaxItemLen}

\* marshal.dumps(item): the type code, the length, the bytes.
Dumps(item) == <<TypeRecord, Len(item)>> \o item

RECURSIVE DumpAll(_)
DumpAll(l) == IF l = <<>> THEN <<>> ELSE Dumps(Head(l)) \o DumpAll(Tail(l))

\* marshal.load(f) at position pos (0-based): EOFError when the file ends
\* before or inside the item, ValueError on a byte that is no type code.
Load(data, pos) ==
  IF pos >= Len(data) THEN [err |-> "EOFError", item |-> <<>>, pos |-> pos]
  ELSE IF data[pos + 1] # TypeRecord
       THEN [err |-> "ValueError", item |-> <<>>, pos |-> pos]
  ELSE IF pos + 1 >= Len(data) \/ pos + 2 + data[pos + 2] > Len(data)
       THEN [err |-> "EOFError", item |-> <<>>, pos |-> pos]
  ELSE [err |-> "none",
        item |-> SubSeq(data, pos + 3, pos + 2 + data[pos + 2]),
        pos |-> pos + 2 + data[pos + 2]]

\* Line 148: except EOFError: break.
EndOfData(e) == e = "EOFError"

\* unmarshal_iter, lines 144-149: items are yielded until marshal.load
\* raises; EOFError ends the iteration, any other exception leaves it.
RECURSIVE UnmarshalIter(_, _)
UnmarshalIter(data, pos) ==
  LET r == Load(data, pos)
  IN IF r.err = "none"
     THEN LET rest == UnmarshalIter(data, r.pos)
          IN [items |-> <<r.item>> \o rest.items, raised |-> rest.raised]
     ELSE [items |-> <<>>,
           raised |-> IF EndOfData(r.err) THEN "none" ELSE r.err]

\* A bucket file as a reader can find it: the items a task dumped, either
\* cut short at any byte or followed by a byte that is no type code.
InitMarshal ==
  /\ \E l \in UNION {[1..n -> Payloads] : n \in 0..MaxItems} :
       \/ \E k \in 0..Len(DumpAll(l)) : fdata = SubSeq(DumpAll(l), 1, k)
       \/ fdata = DumpAll(l) \o <<TypeUnknown>>
  /\ items = NotRun
  /\ raised = "none"
  /\ ScanIdle
  /\ TokIdle
  /\ MainIdle
  /\ TrainIdle /\ ExitIdle /\ PickIdle /\ DiskIdle /\ FeatIdle /\ CountIdle

ReadBucketFile ==
  /\ items = NotRun
  /\ items' = UnmarshalIter(fdata, 0).items
  /\ raised' = UnmarshalIter(fdata, 0).raised
  /\ UNCHANGED fdata
  /\ UNCHANGED <<scanVars, tokVars, poolVars, mainVars>>
  /\ UNCHANGED <<trainVars, exitVars, pickVars, diskVars, featVars, countVars>>

NextMarshal == ReadBucketFile

SpecMarshal == InitMarshal /\ [][NextMarshal]_vars

IsPrefix(p, s) == Len(p) <= Len(s) /\ SubSeq(s, 1, Len(p)) = p

\* The items that are completely in the file, in file order.
Whole(data) ==
  CHOOSE l \in UNION {[1..n -> Payloads] : n \in 0..(MaxItems + 1)} :
    /\ IsPrefix(DumpAll(l), data)
    /\ \A l2 \in UNION {[1..n -> Payloads] : n \in 0..(MaxItems + 1)} :
         IsPrefix(DumpAll(l2), data) => Len(l2) <= Len(l)

\* C16: unmarshal_iter yields the items that are completely in the file, in
\* file order, and ends without an exception exactly when the file ends at
\* the end of an item.
C16_CleanEndOnlyAtBoundary ==
  (items # NotRun) =>
    /\ items = Whole(fdata)
    /\ (raised = "none") <=> (DumpAll(Whole(fdata)) = fdata)

----------------------------------------------------------------------------
\* LDfeatureselect.py: pass3 and select_LD_features

\* numpy.log of the counts met, in thousandths (log 1 .. log 4).
LogTable == <<0, 693, 1099, 1386>>

\* v * log(v); nansum drops the nan of 0 * log(0).
XLogX(k) == IF k = 0 THEN 0 ELSE k * LogTable[k]

\* The number of documents of D in class k.
ClassCount(classOf, D, k) == Cardinality({d \in D : classOf[d] = k})

\* entropy, lines 118-127, of the class counts of the documents D, times the
\* number of documents in D: s * (log(s) - nansum(v * log(v)) / s). For an
\* empty D the entropy is nan, which split_info sets to 0 (line 162).
CountTimesEntropy(classOf, D) ==
  XLogX(Cardinality(D)) -
  SumValues({<<k, XLogX(ClassCount(classOf, D, k))>> : k \in Range(classOf)})

\* The float nan, a value no sum of logarithms of the model reaches.
NaN == 0 - 1000000

\* Float arithmetic: nan in, nan out.
FAdd(a, b) == IF a = NaN \/ b = NaN THEN NaN ELSE a + b
FSub(a, b) == IF a = NaN \/ b = NaN THEN NaN ELSE a - b

\* entropy of the class counts of the documents D (times their number): for
\* no document s is 0 and log(0) - nansum(...) / 0 is -inf - nan, nan.
Entropy(classOf, D) == IF D = {} THEN NaN ELSE CountTimesEntropy(classOf, D)

\* The nan entries stay in f_entropy.
NanKept(x) == x

\* split_info, line 162: f_entropy[numpy.isnan(f_entropy)] = 0.
NanToZero(x) == IF x = NaN THEN 0 ELSE x

\* split_info, lines 153-163: f_weight * f_entropy of one band (times
\* num_inst); a nan entropy times the weight 0 would be nan.
BandTerm(classOf, D) == FAdd(NanToZero(Entropy(classOf, D)), 0)

\* split_info: the sum across the band without and the band with the feature.
SplitInfo(classOf, with) ==
  FAdd(BandTerm(classOf, DOMAIN classOf \ with), BandTerm(classOf, with))

\* infogain, lines 165-179, of one feature, times num_inst: H_P minus the
\* entropies of the band without and the band with the feature, each
\* weighted by f_count / num_inst.
InfoGain(classOf, with) ==
  FSub(Entropy(classOf, DOMAIN classOf), SplitInfo(classOf, with))

\* pass3, lines 293-296: the binarized class map of one language.
Binarized(lang, langid) == [d \in DOMAIN lang |-> IF lang[d] = langid THEN 1 ELSE 0]

\* pass3, lines 272-279: the documents of a term, from the .list records of
\* the unigrams.
TermDocs(texts, term) == {d \in DOMAIN texts : term \in Range(Tokenizer(1, texts[d]))}
CorpusTerms(texts) == UNION {Range(Tokenizer(1, texts[d])) : d \in DOMAIN texts}

\* pass3, lines 290-300: w - w_domain for every language and term.
WLang(c, tt) ==
  [l \in 1..Cardinality(Range(c.lang)) |->
     [t \in DOMAIN tt |->
        FSub(InfoGain(Binarized(c.lang, l - 1), TermDocs(c.texts, tt[t])),
             InfoGain(c.domain, TermDocs(c.texts, tt[t])))]]

\* numpy.argsort: the indices in ascending order of weight; the order of
\* equal weights is not specified.
ArgSorts(w) ==
  {p \in Perms(DOMAIN w) : \A i, j \in DOMAIN p : i < j => w[p[i]] <= w[p[j]]}

\* a[-n:] for n >= 0: -0 is 0, so a[-0:] is all of a.
LastN(a, n) ==
  IF n = 0 \/ n >= Len(a) THEN a ELSE SubSeq(a, Len(a) - n + 1, Len(a))

NoCorpus == <<>>
PickTexts == Strings(MaxPickLen) \ {<<>>}

\* Either a corpus whose bucket files pass3 is about to read, or the weights
\* pass3 returned, for distinct terms.
InitPick ==
  /\ feats_per_lang \in 0..MaxFeatsPerLang
  /\ term_inds = <<>>
  /\ \/ /\ \E n \in 1..MaxPickDocs :
             corpus \in [texts : [0..(n - 1) -> PickTexts],
                         lang : ClassMaps(n), domain : ClassMaps(n)]
        /\ terms = NotRun
        /\ w_lang = NotRun
        /\ final_feature_set = NotRun
     \/ /\ corpus = NoCorpus
        /\ \E t \in 0..MaxTerms :
             /\ terms = [i \in 1..t |-> <<i>>]
             /\ \E l \in 1..MaxClasses :
                  w_lang \in [1..l -> [1..t -> (0 - MaxWeight)..MaxWeight]]
        /\ final_feature_set = {}
  /\ ScanIdle
  /\ TokIdle
  /\ MainIdle
  /\ TrainIdle /\ ExitIdle /\ MarshalIdle /\ DiskIdle /\ FeatIdle /\ CountIdle

\* Lines 358-382: the pass3 results are gathered (the terms in the order the
\* buckets and their dictionaries give), final_feature_set = set().
Pass3 ==
  /\ terms = NotRun
  /\ terms' \in Perms(CorpusTerms(corpus.texts))
  /\ w_lang' = WLang(corpus, terms')
  /\ final_feature_set' = {}
  /\ UNCHANGED <<feats_per_lang, corpus, term_inds>>
  /\ UNCHANGED <<scanVars, tokVars, poolVars, mainVars>>
  /\ UNCHANGED <<trainVars, exitVars, marshalVars, diskVars, featVars, countVars>>

\* Lines 383-387: one round of "for lang in lang_index".
PickLang ==
  /\ terms # NotRun
  /\ Len(term_inds) < Len(w_lang)
  /\ \E order \in ArgSorts(w_lang[Len(term_inds) + 1]) :
       LET taken == LastN(order, feats_per_lang)
       IN /\ term_inds' = Append(term_inds, taken)
          /\ final_feature_set' = final_feature_set \cup {terms[t] : t \in Range(taken)}
  /\ UNCHANGED <<feats_per_lang, corpus, terms, w_lang>>
  /\ UNCHANGED <<scanVars, tokVars, poolVars, mainVars>>
  /\ UNCHANGED <<trainVars, exitVars, marshalVars, diskVars, featVars, countVars>>

NextPick == Pass3 \/ PickLang

SpecPick == InitPick /\ [][NextPick]_vars

----------------------------------------------------------------------------

\* LDfeatureselect.py: disklist

\* file.write at the position of the file object (TemporaryFile is opened
\* "w+b", not in append mode): the bytes replace what is there and lengthen
\* the file where it ends.
WriteAt(data, pos, bytes) ==
  [i \in 1..(IF pos + Len(bytes) > Len(data) THEN pos + Len(bytes) ELSE Len(data)) |->
     IF i > pos /\ i <= pos + Len(bytes) THEN bytes[i - pos] ELSE data[i]]

\* The position of the file object after marshal.load(f) at pos: behind the
\* item, behind the byte that is no type code, or at the end of the file.
LoadEnd(data, pos) ==
  LET r == Load(data, pos)
  IN IF r.err = "none" THEN r.pos
     ELSE IF r.err = "ValueError" THEN pos + 1
     ELSE Len(data)

\* Line 74: except (EOFError, ValueError, TypeError): break.
DiskEnd(e) == e \in {"EOFError", "ValueError", "TypeError"}

\* Lines 65-67: a new disklist.
InitDisk ==
  /\ DiskIdle
  /\ ScanIdle
  /\ TokIdle
  /\ MainIdle
  /\ TrainIdle /\ ExitIdle /\ MarshalIdle /\ PickIdle /\ FeatIdle /\ CountIdle

\* append, lines 80-82.
append(value) ==
  /\ Len(appended) < MaxAppends
  /\ fileh' = WriteAt(fileh, fpos, Dumps(value))
  /\ fpos' = fpos + Len(Dumps(value))
  /\ count' = count + 1
  /\ appended' = Append(appended, value)
  /\ UNCHANGED <<torn, it, yielded, since, stop>>
  /\ UNCHANGED <<scanVars, tokVars, poolVars, mainVars>>
  /\ UNCHANGED <<trainVars, exitVars, marshalVars, pickVars, featVars, countVars>>

\* append, line 81, when marshal.dump raises (OSError of a full disk) with
\* part of the item written: line 82 is not reached.
appendRaises(value) ==
  /\ ~torn
  /\ Len(appended) < MaxAppends
  /\ \E k \in 0..(Len(Dumps(value)) - 1) :
       /\ fileh' = WriteAt(fileh, fpos, SubSeq(Dumps(value), 1, k))
       /\ fpos' = fpos + k
  /\ torn' = TRUE
  /\ UNCHANGED <<count, appended, it, yielded, since, stop>>
  /\ UNCHANGED <<scanVars, tokVars, poolVars, mainVars>>
  /\ UNCHANGED <<trainVars, exitVars, marshalVars, pickVars, featVars, countVars>>

\* iter(disklist): a new generator; its body has not started. The generator
\* a consumer held before is abandoned.
IterStart ==
  /\ it' = "fresh"
  /\ yielded' = <<>>
  /\ since' = Len(appended)
  /\ stop' = NoStop
  /\ UNCHANGED <<fileh, fpos, count, appended, torn>>
  /\ UNCHANGED <<scanVars, tokVars, poolVars, mainVars>>
  /\ UNCHANGED <<trainVars, exitVars, marshalVars, pickVars, featVars, countVars>>

\* next(generator), lines 69-75: seek(0) on the first call, then one
\* marshal.load; the exceptions of line 74 end the generator, any other
\* leaves it.
IterNext ==
  /\ it \in {"fresh", "active"}
  /\ LET pos == IF it = "fresh" THEN 0 ELSE fpos
         r == Load(fileh, pos)
     IN /\ fpos' = LoadEnd(fileh, pos)
        /\ IF r.err = "none"
           THEN /\ yielded' = Append(yielded, r.item)
                /\ it' = "active"
                /\ stop' = stop
           ELSE /\ yielded' = yielded
                /\ it' = IF DiskEnd(r.err) THEN "done" ELSE "failed"
                /\ stop' = [err |-> r.err, at |-> pos, size |-> Len(fileh)]
  /\ UNCHANGED <<fileh, count, appended, torn, since>>
  /\ UNCHANGED <<scanVars, tokVars, poolVars, mainVars>>
  /\ UNCHANGED <<trainVars, exitVars, marshalVars, pickVars, featVars, countVars>>

NextDisk ==
  \/ \E value \in Payloads : append(value)
  \/ \E value \in Payloads : appendRaises(value)
  \/ IterStart
  \/ IterNext

SpecDisk == InitDisk /\ [][NextDisk]_vars

\* C22: an iteration of a disklist ends without an error only at the clean
\* end of the file: nothing is left to read where marshal.load raised.
C22_SilentEndOnlyAtCleanEnd ==
  (it = "done") => (stop.err = "EOFError" /\ stop.at = stop.size)

\* C27: a complete iteration made after any appends and iterations, during
\* which nothing is appended (and no append has raised), has yielded the
\* values appended so far, in append order, and len() is their number.
C27_IterationYieldsAppended ==
  (it = "done" /\ ~torn /\ since = Len(appended)) =>
    (yielded = appended /\ count = Len(yielded))

----------------------------------------------------------------------------

\* Claims about the Scanner

IsSuffix(k, s) ==
  /\ Len(k) <= Len(s)
  /\ \A i \in 1..Len(k) : k[i] = s[Len(s) - Len(k) + i]

Ready == scanner.err = "none"

\* C1: after every symbol the compiled table is in the state the direct
\* goto/fail simulation is in, through the nextmove dictionary (search) and
\* through nm_arr (state_trace) alike.
C1_CompiledFollowsDirect ==
  Ready => (sstate = rstate /\ tstate = rstate)

\* C2: after a successful build nm_arr holds one row per trie state
\* (0..newstate), one cell per symbol, and every cell is an existing state.
C2_TableTotal ==
  Ready =>
    /\ Len(scanner.nm_arr) = (scanner.newstate + 1) * AlphabetSize
    /\ \A i \in DOMAIN scanner.nm_arr : scanner.nm_arr[i] \in 0..scanner.newstate

\* C3: on every symbol search emits exactly the keywords that are a suffix of
\* the text read so far.
C3_SearchEmitsSuffixKeywords ==
  (Ready /\ text # <<>>) =>
    emitted = {k \in Range(keywords) : IsSuffix(k, text)}

\* C3 witness: two keywords end at the same symbol, the shorter one found
\* through the failure chain of the longer one's state.
C3_Witness ==
  /\ Ready
  /\ \E k1, k2 \in emitted : Len(k1) < Len(k2)

\* C4: the automata built from two orderings of one keyword set report the
\* same matches after every symbol.
C4_OrderIndependent ==
  (Ready /\ scanner2.err = "none") => emitted = emitted2

\* C4 witness: the two orderings numbered the states differently and a
\* keyword has just been matched.
C4_Witness ==
  /\ Ready
  /\ scanner2.goto # scanner.goto
  /\ emitted # {}
  /\ emitted = emitted2

----------------------------------------------------------------------------
\* Tokenizer: any order, any sequence

\* Tokenizer(max_order)(seq) is called on any order and any sequence.
InitTok ==
  /\ max_order \in 1..MaxOrder
  /\ seq \in Strings(MaxInput)
  /\ tokens = NotRun
  /\ ScanIdle
  /\ MainIdle
  /\ TrainIdle /\ ExitIdle /\ MarshalIdle /\ PickIdle /\ DiskIdle /\ FeatIdle /\ CountIdle

Tokenize ==
  /\ tokens = NotRun
  /\ tokens' = Tokenizer(max_order, seq)
  /\ UNCHANGED <<max_order, seq>>
  /\ UNCHANGED <<scanVars, poolVars, mainVars, moreVars>>

NextTok == Tokenize

SpecTok == InitTok /\ [][NextTok]_vars

\* The n-grams of orders 1..m that occur in s.
NGrams(m, s) ==
  {SubSeq(s, i, j) : i \in 1..Len(s), j \in 1..Len(s)} \cap
  {g \in Strings(m) : g # <<>>}

\* C9: the token set of Tokenizer(m)(S) is the set of all contiguous
\* subsequences of S of length 1..m, for S of any length.
C9_TokensAreAllNGrams ==
  (tokens # NotRun) => Range(tokens) = NGrams(max_order, seq)

----------------------------------------------------------------------------
\* Claims about the pipelines

\* C5: when the automaton has more states than a cell can index
\* (newstate > CellMax), build_scanner ends the program with OverflowError:
\* no table exists, no chunk is dispatched and no document is read.
C5_OverflowStopsBuild ==
  (pc # "build_scanner" /\ scanner.newstate > CellMax) =>
    /\ pc = "aborted"
    /\ err = "OverflowError"
    /\ scanner.nm_arr = <<>>
    /\ files = {}
    /\ \A d \in DOMAIN content : content[d] = Unread

\* C5 witness: a feature list whose automaton is too large has been built
\* and the program has ended with the error.
C5_Witness ==
  /\ scanner.newstate > CellMax
  /\ pc = "aborted"
  /\ err = "OverflowError"

\* Positions of s at which keyword k ends.
Occurrences(k, s) ==
  Cardinality({p \in 1..Len(s) : IsSuffix(k, SubSeq(s, 1, p))})

\* The count the files hold for feature f and document doc_id of chunk c.
Recorded(c, doc_id, f) ==
  LET rs == {r \in UNION {g.data : g \in files} :
               r[1] = f /\ r[2] = c /\ r[3] = doc_id}
  IN IF rs = {} THEN 0 ELSE (CHOOSE r \in rs : TRUE)[4]

\* C6: once a training pass1 task has returned, the count recorded for every
\* document of its chunk and every feature id is the number of positions of
\* the document at which the feature ends, and no record holds a zero count.
C6_CountsAreOccurrences ==
  \A c \in DOMAIN finished :
    /\ \A i \in DOMAIN path_chunks[c + 1] : \A f \in 0..(Len(keywords) - 1) :
         content[path_chunks[c + 1][i]] # Unread =>
           Recorded(c, i - 1, f) =
             Occurrences(keywords[f + 1], content[path_chunks[c + 1][i]])
    /\ \A g \in files : \A r \in g.data : r[2] = c => r[4] > 0

\* C7: any two pass1 records of one key lie in files of the same bucket
\* directory, whichever tasks and workers wrote them.
C7_OneBucketPerKey ==
  \A f1, f2 \in {g \in files : g.suffix = "freq"} :
    \A r1 \in f1.data : \A r2 \in f2.data :
      r1[1] = r2[1] => f1.dir = f2.dir

\* The documents of the corpus that contain n-gram k.
Containing(k) ==
  {d \in DOMAIN content : k \in NGrams(max_order, content[d])}

\* C8: after pass1 and pass2 the global table holds, for every n-gram, the
\* number of documents that contain it (no entry: zero).
C8_DocFreqIsDocumentCount ==
  (pc = "indexed") =>
    \A k \in Strings(max_order) \ {<<>>} :
      (IF k \in DOMAIN doc_count THEN doc_count[k] ELSE 0)
        = Cardinality(Containing(k))

RECURSIVE Concat(_)
Concat(chunks) ==
  IF chunks = <<>> THEN <<>>
  ELSE Concat(SubSeq(chunks, 1, Len(chunks) - 1)) \o chunks[Len(chunks)]

\* C10: for every corpus size and job count, build_inverted_index (once its
\* bucket directories are made) dispatches
\* non-empty chunks that, one after the other, are the path list, and
\* chunk_offsets[c] + p is the index of the document at position p of chunk c,
\* the last offset being the corpus size.
C10_ChunksCoverCorpus ==
  (pc # "build_inverted_index" /\ err # "OSError") =>
    /\ err = "none"
    /\ \A c \in DOMAIN path_chunks : path_chunks[c] # <<>>
    /\ Concat(path_chunks) = Paths(num_docs)
    /\ (pc = "indexed") =>
         /\ Len(chunk_offsets) = Len(path_chunks) + 1
         /\ chunk_offsets[Len(chunk_offsets)] = num_docs
         /\ \A c \in DOMAIN path_chunks : \A p \in DOMAIN path_chunks[c] :
              chunk_offsets[c] + (p - 1) = path_chunks[c][p]

\* The documents whose token set holds n-gram k.
Tokenized(k) ==
  {d \in DOMAIN content : k \in Range(Tokenizer(max_order, content[d]))}

\* The table the run with one job and one bucket builds from the corpus.
OneJobDocCount ==
  [k \in UNION {Range(Tokenizer(max_order, content[d])) : d \in DOMAIN content}
     |-> Cardinality(Tokenized(k))]

\* C11: with one partition function for all workers (fork), a run whose
\* corpus the one-job run indexes ends like the one-job run whatever its
\* job_count and bucket count: no TypeError ends it and its global table is
\* the one-job table.
C11_SameForEveryPoolSize ==
  (fork /\ ChunkSize(num_docs, 1) # NotAnInt /\ pc # "build_inverted_index") =>
    /\ err # "TypeError"
    /\ (pc = "indexed") => doc_count = OneJobDocCount

\* C13: every total a feature-selection pass2 reducer has written is the
\* number of documents whose tokens hold the term, whichever workers ran the
\* pass1 tasks and in whichever order.
C13_TotalsIndependentOfWorkers ==
  \A f \in {g \in files : g.suffix = "docfreq" /\ ~g.open} :
    \A r \in f.data : r[2] = Cardinality(Tokenized(r[1]))

\* C12: for every bucket the training pass2 has returned, every feature of
\* the bucket and every class, the entry of the product is the sum, over the
\* documents of the class, of the occurrences of the feature in the document.
C12_ProductIsClassSum ==
  \A b \in DOMAIN pass2_out :
    \A e \in DOMAIN pass2_out[b].prod :
      pass2_out[b].prod[e] =
        SumValues({<<d, Occurrences(keywords[Offsets(feat_chunks(keywords))[b + 1] + e[1] + 1],
                                    content[d])>> :
                     d \in {x \in DOMAIN cm : cm[x] = e[2]}})

\* C12 witness: a returned product holds an entry above 1 and a zero entry,
\* and fewer records were read than the feature map has cells.
C12_Witness ==
  \E b \in DOMAIN pass2_out :
    /\ \E e \in DOMAIN pass2_out[b].prod : pass2_out[b].prod[e] > 1
    /\ \E e \in DOMAIN pass2_out[b].prod : pass2_out[b].prod[e] = 0
    /\ pass2_out[b].reads < num_docs * Len(feat_chunks(keywords)[b + 1])

\* C14: while the pass2 reducers run, and when the parent reads the docfreq
\* files, every pass1 task has returned: each chunk's .freq and .list file of
\* every bucket is there and closed; and the parent reads the docfreq files
\* only when every pass2 task has written and closed its own.
C14_PhasesAreBarriers ==
  /\ (pc \in {"pass2", "indexed"}) =>
       /\ \A f \in files : f.suffix \in {"freq", "list"} => ~f.open
       /\ \A c \in 0..(Len(path_chunks) - 1) : \A b \in b_dirs :
            \A sfx \in {"freq", "list"} :
              \E f \in files : f.task = c /\ f.dir = b /\ f.suffix = sfx
  /\ (pc = "indexed") =>
       \A b \in b_dirs :
         \E f \in files : f.dir = b /\ f.suffix = "docfreq" /\ ~f.open

\* C14 witness: a pass2 reducer is running over a bucket that several pass1
\* tasks, run by two workers, have written.
C14_Witness ==
  /\ pc = "pass2"
  /\ job_count > 1
  /\ \E w \in DOMAIN running :
       /\ running[w] # Idle
       /\ \E f \in files : f.dir = running[w] /\ f.suffix = "freq" /\ f.data # {}

\* C15: once a pass1 task has failed in its worker, the task is not run
\* again, pass2 is never started and no model is written: the run ends
\* aborted.
C15_FailureAborts ==
  \A c \in DOMAIN finished :
    finished[c] = IndexError =>
      /\ pc \in {"pass1", "aborted"}
      /\ (pc = "aborted") => err = "IndexError"
      /\ outfile = "none"
      /\ pass2_out = EmptyMap
      /\ \A w \in DOMAIN running : running[w] # c
      /\ \A i \in DOMAIN queue : queue[i] # c

\* C15 witness: the run is aborted by the failed task although another task
\* of the phase has written its records.
C15_Witness ==
  /\ pc = "aborted"
  /\ \E c \in DOMAIN finished : finished[c] = IndexError
  /\ \E c \in DOMAIN finished : finished[c] > 0
  /\ \E f \in files : f.data # {}

\* C17: when the process has exited, no bucket directory that was created
\* during the run is left on disk.
C17_NoDirectoryLeft ==
  (pc = "exited") => disk_dirs = {}


\* The files of the pass1 tasks.
Pass1Files == {f \in files : f.suffix \in {"freq", "list", "index"}}

\* The pass1 tasks that have returned a result.
Returned == {c \in DOMAIN finished : finished[c] # IndexError}

\* C18: no path of a bucket directory is held by two pass1 task executions,
\* whichever workers ran them and in whichever order; and an execution that
\* has returned has written one file of each suffix in every bucket directory
\* and has closed each of them.
C18_OneWriterPerFile ==
  /\ \A f, g \in Pass1Files :
       (f.dir = g.dir /\ f.name = g.name /\ f.suffix = g.suffix) => f.task = g.task
  /\ (pc = "pass1") =>
       \A c \in Returned : \A b \in b_dirs : \A sfx \in {f.suffix : f \in Pass1Files} :
         /\ Cardinality({f \in files : f.task = c /\ f.dir = b /\ f.suffix = sfx}) = 1
         /\ \A f \in files : (f.task = c /\ f.suffix = sfx) => ~f.open

\* C18 witness: two tasks have returned, each with its own closed file in the
\* same bucket directory, while a third holds its files open.
C18_Witness ==
  /\ pc = "pass1"
  /\ \E c, d \in Returned :
       /\ c # d
       /\ \E f, g \in Pass1Files :
            /\ f.task = c /\ g.task = d /\ f.dir = g.dir /\ f.suffix = g.suffix
            /\ f.name # g.name /\ ~f.open /\ ~g.open /\ f.data # {}
  /\ \E f \in Pass1Files : f.open


\* The selection loop has handled every language.
Selected == terms # NotRun /\ Len(term_inds) = Len(w_lang)

\* C19: when select_LD_features has handled every language, for every
\* feats_per_lang n >= 0 exactly min(n, T) of the T terms are taken for each
\* language, no term taken weighs less than a term not taken, and the final
\* feature set is the union of the terms taken, of at most n terms per language.
C19_TopTermsPerLanguage ==
  Selected =>
    /\ \A l \in DOMAIN term_inds :
         LET taken == Range(term_inds[l])
         IN /\ Cardinality(taken) = Min(feats_per_lang, Len(terms))
            /\ \A t \in taken : \A u \in DOMAIN terms \ taken :
                 w_lang[l][t] >= w_lang[l][u]
    /\ final_feature_set =
         UNION {{terms[t] : t \in Range(term_inds[l])} : l \in DOMAIN term_inds}
    /\ Cardinality(final_feature_set) <= feats_per_lang * Len(w_lang)

\* C20: for document A = "aa" (symbol 0) and document B = "bb" (symbol 1) in
\* two languages and feats_per_lang = 1, the term taken for language A is "a",
\* the term taken for language B is "b", and the final feature set is both.
C20_MarkerTermPerLanguage ==
  (/\ Selected
   /\ corpus # NoCorpus
   /\ corpus.texts = (0 :> <<0, 0>>) @@ (1 :> <<1, 1>>)
   /\ corpus.lang = (0 :> 0) @@ (1 :> 1)
   /\ feats_per_lang = 1) =>
    /\ terms[term_inds[1][1]] = <<0>>
    /\ terms[term_inds[2][1]] = <<1>>
    /\ final_feature_set = {<<0>>, <<1>>}


\* The class maps infogain is called with: the domains, each language
\* against the others.
PickClassMaps ==
  {corpus.domain} \cup
  {Binarized(corpus.lang, l) : l \in Range(corpus.lang)}

\* C21: a side of the split that holds no document adds 0 to the split
\* entropy, and the information gain is a number for every feature, one in
\* every document or in none included; so is every weight pass3 returns.
C21_EmptyBandAddsZero ==
  (corpus # NoCorpus) =>
    /\ \A cls \in PickClassMaps : \A with \in SUBSET DOMAIN corpus.texts :
         /\ InfoGain(cls, with) # NaN
         /\ (with = {}) => SplitInfo(cls, with) = BandTerm(cls, DOMAIN cls)
         /\ (with = DOMAIN cls) => SplitInfo(cls, with) = BandTerm(cls, with)
    /\ (terms # NotRun) =>
         \A l \in DOMAIN w_lang : \A t \in DOMAIN terms : w_lang[l][t] # NaN

\* C21 witness: pass3 has weighed a term that is in every document of a
\* corpus of two languages, and one that is in one document only.
C21_Witness ==
  /\ corpus # NoCorpus
  /\ terms # NotRun
  /\ Cardinality(Range(corpus.lang)) = 2
  /\ \E t, u \in DOMAIN terms :
       /\ TermDocs(corpus.texts, terms[t]) = DOMAIN corpus.texts
       /\ Cardinality(TermDocs(corpus.texts, terms[u])) = 1
       /\ w_lang[1][t] # w_lang[1][u]


\* The n-grams of order i of the corpus.
CorpusNGrams(i) ==
  {k \in UNION {NGrams(max_order, content[d]) : d \in DOMAIN content} : Len(k) = i}

\* C23: for every order up to max_order the candidate set holds
\* min(df_tokens, number of n-grams of that order) n-grams of the order, and
\* none of them is in fewer documents than an n-gram of the order left out.
C23_TopByDocumentFrequency ==
  (pc = "indexed") =>
    \A i \in 1..max_order :
      LET cand == {k \in features.set : Len(k) = i}
      IN /\ Cardinality(cand) = Min(features.df_tokens, Cardinality(CorpusNGrams(i)))
         /\ \A k \in cand : \A u \in CorpusNGrams(i) \ cand :
              Cardinality(Containing(k)) >= Cardinality(Containing(u))


\* np.vstack(pass2_out), line 356: the rows of the results, bucket after
\* bucket; row i of the stack is row StackRows[i + 1][2] of the product of
\* bucket StackRows[i + 1][1].
RECURSIVE VStackRows(_)
VStackRows(n) ==
  IF n = 0 THEN <<>>
  ELSE VStackRows(n - 1) \o
       [j \in 1..f_chunk_sizes(keywords)[n] |-> <<n - 1, j - 1>>]
StackRows == VStackRows(Len(feat_chunks(keywords)))

\* The chunks of a list are ranges of its positions, one behind the other.
ContiguousRanges(s, size) ==
  LET cs == Chunk(s, size)
      os == Offsets(cs)
  IN /\ os[Len(os)] = Len(s)
     /\ \A c \in DOMAIN cs : \A p \in DOMAIN cs[c] : cs[c][p] = s[os[c] + p]

----------------------------------------------------------------------------
\* Claims about the failure function (train.py:83-118)

\* The string that leads from the root to state s in the keyword trie.
RECURSIVE PathOf(_, _)
PathOf(goto, s) ==
  IF s = 0 THEN <<>>
  ELSE LET e == CHOOSE e \in DOMAIN goto : goto[e] = s
       IN Append(PathOf(goto, e[1]), e[2])

\* The states of the trie: the root and every state Algorithm 2 created.
TrieStates(sc) == 0..sc.newstate

\* The state of the longest proper suffix of the path of s that is itself the
\* path of a state, the root when there is none.
LongestSuffixState(sc, s) ==
  LET p == PathOf(sc.goto, s)
      cands == {t \in TrieStates(sc) \ {0} :
                  LET q == PathOf(sc.goto, t)
                  IN Len(q) < Len(p) /\ IsSuffix(q, p)}
  IN IF cands = {} THEN 0
     ELSE CHOOSE t \in cands :
            \A u \in cands : Len(PathOf(sc.goto, u)) <= Len(PathOf(sc.goto, t))

FailIsLongestSuffix(sc) ==
  /\ sc.err # "KeyError"
  /\ \A s \in TrieStates(sc) \ {0} :
       /\ s \in DOMAIN sc.fail
       /\ sc.fail[s] = LongestSuffixState(sc, s)

\* C25: once Scanner.build has run, no read of fail (or of the nextmove of a
\* failure state) by Algorithm 3 or Algorithm 4 found the entry missing, and
\* fail[s] of every non-root state s is the state of the longest proper suffix
\* of the path of s that is a path of the trie, the root when there is none;
\* for either order of the keywords.
C25_FailIsLongestProperSuffix ==
  (scanner.err # "unbuilt") =>
     (FailIsLongestSuffix(scanner) /\ FailIsLongestSuffix(scanner2))

\* C25 witness: a built automaton has a state of depth 3 whose failure link
\* leads to a state of depth 2, and another non-root state whose failure link
\* leads to the root.
C25_Witness ==
  /\ scanner.err # "unbuilt"
  /\ \E s \in TrieStates(scanner) \ {0} :
       /\ Len(PathOf(scanner.goto, s)) = 3
       /\ Len(PathOf(scanner.goto, scanner.fail[s])) = 2
  /\ \E s \in TrieStates(scanner) \ {0} :
       /\ Len(PathOf(scanner.goto, s)) >= 2
       /\ scanner.fail[s] = 0

----------------------------------------------------------------------------
\* Claims about the record counts of the two passes

\* The records the pass1 tasks left in the bucket files: (task, record) for
\* the .freq files, the items (which name their chunk) for the .index files.
Pass1Records ==
  UNION {{<<f.task, r>> : r \in f.data} : f \in {g \in files : g.suffix = "freq"}}
  \cup UNION {f.data : f \in {g \in files : g.suffix = "index"}}

\* The records pass1 has to write for the documents read: one per key of
\* every chunk (LDfeatureselect.py:224-227, train.py:239-243).
ChunkContent(c) ==
  [i \in DOMAIN path_chunks[c + 1] |-> content[path_chunks[c + 1][i]]]
KeysOfChunks ==
  SumValues({<<c, IF pc = "indexed"
                  THEN Cardinality(ChunkTokens(ChunkContent(c)))
                  ELSE Cardinality(DOMAIN TermFreq(ChunkContent(c)))>> :
               c \in 0..(Len(path_chunks) - 1)})

\* Both passes have returned and their counts are summed.
PassesDone == pc \in {"indexed", "done"}

\* C26: when both passes have run without a failed task, the count the
\* reducers report equals the count pass1 reported (wrotekeys - readkeys is
\* 0), that count is the number of records in the bucket files, one per key
\* of every chunk, every such record was read by exactly one pass2 task, and
\* no pass2 task read anything else.
C26_ReadBackEqualsWritten ==
  PassesDone =>
    /\ readkeys = wrotekeys
    /\ wrotekeys = Cardinality(Pass1Records)
    /\ wrotekeys = KeysOfChunks
    /\ DOMAIN pass2_read = b_dirs
    /\ \A r \in Pass1Records :
         Cardinality({b \in DOMAIN pass2_read : r \in pass2_read[b]}) = 1
    /\ \A b \in DOMAIN pass2_read : pass2_read[b] \subseteq Pass1Records
    /\ readkeys = SumOut([b \in DOMAIN pass2_read |-> Cardinality(pass2_read[b])])

\* C26 witness: the index is built from several chunks, three or more
\* records were written, and two pass2 tasks each read some of them.
C26_Witness ==
  /\ pc = "indexed"
  /\ Len(path_chunks) >= 2
  /\ wrotekeys >= 3
  /\ \E b1, b2 \in DOMAIN pass2_read :
       b1 # b2 /\ pass2_read[b1] # {} /\ pass2_read[b2] # {}

====
